---- MODULE Spec2Model ----
(***************************************************************************)
(* crates/wdk-sys/src/input.h: the header handed to the binding generator. *)
(*                                                                         *)
(* The file is a list of preprocessor directives and two type              *)
(* declarations.  Program is that list; the actions are the preprocessor   *)
(* walking it, one directive per step, for one build configuration (the    *)
(* set of defined symbols) and one header search path (the set of headers  *)
(* that can be found).  The two declared unions are modelled as type       *)
(* descriptions whose layout (offsets, sizes, bit positions) is computed   *)
(* by the rules of the Windows x64 ABI, and whose storage is read and      *)
(* written through the members.                                            *)
(***************************************************************************)
EXTENDS Integers, Sequences, FiniteSets, TLC

VARIABLES symbols, avail, pc, conds, decls, types, status, output, completed,
          obj, mem

passVars == <<symbols, avail, pc, conds, decls, types, status, output, completed>>
memVars == <<obj, mem>>
vars == <<symbols, avail, pc, conds, decls, types, status, output, completed,
          obj, mem>>

----------------------------------------------------------------------------
(* Names used by the file.                                                 *)

UMDF_VERSION_MAJOR == "UMDF_VERSION_MAJOR"
KMDF_VERSION_MAJOR == "KMDF_VERSION_MAJOR"
Symbols == {UMDF_VERSION_MAJOR, KMDF_VERSION_MAJOR}

WindowsH == "windows.h"
NtifsH == "ntifs.h"
NtddkH == "ntddk.h"
WdfH == "wdf.h"
Headers == {WindowsH, NtifsH, NtddkH, WdfH}

GapFilled == {"KGDTENTRY64", "KIDTENTRY64"}

----------------------------------------------------------------------------
(* Type descriptions.                                                      *)

Scalar(n, bytes) ==
    [kind |-> "scalar", name |-> n, size |-> bytes, width |-> 8 * bytes, members |-> <<>>]
BitField(n, bytes, w) ==
    [kind |-> "bits", name |-> n, size |-> bytes, width |-> w, members |-> <<>>]
Struct(n, ms) ==
    [kind |-> "struct", name |-> n, size |-> 0, width |-> 0, members |-> ms]
Union(n, ms) ==
    [kind |-> "union", name |-> n, size |-> 0, width |-> 0, members |-> ms]

UChar(n) == Scalar(n, 1)
UShort(n) == Scalar(n, 2)
ULong(n) == Scalar(n, 4)
UInt64(n) == Scalar(n, 8)
UShortBits(n, w) == BitField(n, 2, w)
ULongBits(n, w) == BitField(n, 4, w)

(* KGDTENTRY64 with Bits.Dpl declared before Bits.Type.                    *)
KGDTENTRY64_DplBeforeType ==
    Union("KGDTENTRY64", <<
        Struct("", <<
            UShort("LimitLow"),
            UShort("BaseLow"),
            Union("", <<
                Struct("Bytes", <<
                    UChar("BaseMiddle"),
                    UChar("Flags1"),
                    UChar("Flags2"),
                    UChar("BaseHigh") >>),
                Struct("Bits", <<
                    ULongBits("BaseMiddle", 8),
                    ULongBits("Dpl", 2),
                    ULongBits("Type", 5),
                    ULongBits("Present", 1),
                    ULongBits("LimitHigh", 4),
                    ULongBits("System", 1),
                    ULongBits("LongMode", 1),
                    ULongBits("DefaultBig", 1),
                    ULongBits("Granularity", 1),
                    ULongBits("BaseHigh", 8) >>) >>),
            ULong("BaseUpper"),
            ULong("MustBeZero") >>),
        UInt64("Alignment") >>)

(* union _KGDTENTRY64, lines 14-47.                                        *)
KGDTENTRY64 ==
    Union("KGDTENTRY64", <<
        Struct("", <<
            UShort("LimitLow"),
            UShort("BaseLow"),
            Union("", <<
                Struct("Bytes", <<
                    UChar("BaseMiddle"),
                    UChar("Flags1"),
                    UChar("Flags2"),
                    UChar("BaseHigh") >>),
                Struct("Bits", <<
                    ULongBits("BaseMiddle", 8),
                    ULongBits("Type", 5),
                    ULongBits("Dpl", 2),
                    ULongBits("Present", 1),
                    ULongBits("LimitHigh", 4),
                    ULongBits("System", 1),
                    ULongBits("LongMode", 1),
                    ULongBits("DefaultBig", 1),
                    ULongBits("Granularity", 1),
                    ULongBits("BaseHigh", 8) >>) >>),
            ULong("BaseUpper"),
            ULong("MustBeZero") >>),
        UInt64("Alignment") >>)

(* KIDTENTRY64 without the trailing Reserved1.                             *)
KIDTENTRY64_NoReserved1 ==
    Union("KIDTENTRY64", <<
        Struct("", <<
            UShort("OffsetLow"),
            UShort("Selector"),
            UShortBits("IstIndex", 3),
            UShortBits("Reserved0", 5),
            UShortBits("Type", 5),
            UShortBits("Dpl", 2),
            UShortBits("Present", 1),
            UShort("OffsetMiddle"),
            ULong("OffsetHigh") >>),
        UInt64("Alignment") >>)

(* KIDTENTRY64 with Reserved0 one bit short.                               *)
KIDTENTRY64_Reserved0Short ==
    Union("KIDTENTRY64", <<
        Struct("", <<
            UShort("OffsetLow"),
            UShort("Selector"),
            UShortBits("IstIndex", 3),
            UShortBits("Reserved0", 4),
            UShortBits("Type", 5),
            UShortBits("Dpl", 2),
            UShortBits("Present", 1),
            UShort("OffsetMiddle"),
            ULong("OffsetHigh"),
            ULong("Reserved1") >>),
        UInt64("Alignment") >>)

(* union _KIDTENTRY64, lines 49-65.                                        *)
KIDTENTRY64 ==
    Union("KIDTENTRY64", <<
        Struct("", <<
            UShort("OffsetLow"),
            UShort("Selector"),
            UShortBits("IstIndex", 3),
            UShortBits("Reserved0", 5),
            UShortBits("Type", 5),
            UShortBits("Dpl", 2),
            UShortBits("Present", 1),
            UShort("OffsetMiddle"),
            ULong("OffsetHigh"),
            ULong("Reserved1") >>),
        UInt64("Alignment") >>)

TypeDef(n) == IF n = "KGDTENTRY64" THEN KGDTENTRY64 ELSE KIDTENTRY64

----------------------------------------------------------------------------
(* Layout of a declared type: what the compiler computes from the members. *)
(* Scalars are aligned to their size; consecutive bit-fields of one        *)
(* underlying type share a storage unit of that type, allocated from the   *)
(* least significant bit; a struct is padded to its strictest member; a    *)
(* union is as large as its largest member.                                *)

Max(S) == CHOOSE x \in S : \A y \in S : y <= x

AlignUp(n, a) == ((n + a - 1) \div a) * a

RECURSIVE SizeOf(_)
RECURSIVE AlignOf(_)
RECURSIVE Place(_, _)
RECURSIVE Leaves(_, _, _, _)

(* Where member i of a struct lands: its byte offset, its first bit in the *)
(* storage unit, the first free byte after it, and the state of the        *)
(* bit-field unit left open behind it.                                     *)
Place(ms, i) ==
    IF i = 0
    THEN [off |-> 0, bit |-> 0, end |-> 0, open |-> FALSE, unit |-> 0, used |-> 0]
    ELSE LET p == Place(ms, i - 1)
             m == ms[i]
         IN  IF m.kind = "bits"
             THEN IF p.open /\ p.unit = m.size /\ p.used + m.width <= 8 * m.size
                  THEN [off |-> p.off, bit |-> p.used, end |-> p.end,
                        open |-> TRUE, unit |-> m.size, used |-> p.used + m.width]
                  ELSE LET o == AlignUp(p.end, m.size)
                       IN  [off |-> o, bit |-> 0, end |-> o + m.size,
                            open |-> TRUE, unit |-> m.size, used |-> m.width]
             ELSE LET o == AlignUp(p.end, AlignOf(m))
                  IN  [off |-> o, bit |-> 0, end |-> o + SizeOf(m),
                       open |-> FALSE, unit |-> 0, used |-> 0]

AlignOf(t) ==
    IF t.kind \in {"scalar", "bits"}
    THEN t.size
    ELSE Max({AlignOf(t.members[i]) : i \in DOMAIN t.members})

SizeOf(t) ==
    CASE t.kind \in {"scalar", "bits"} -> t.size
      [] t.kind = "struct" ->
            AlignUp(Place(t.members, Len(t.members)).end, AlignOf(t))
      [] t.kind = "union" ->
            AlignUp(Max({SizeOf(t.members[i]) : i \in DOMAIN t.members}), AlignOf(t))

(* The leaf members of t placed at byte `base` (first bit `bit`), each     *)
(* with the path of member names that reaches it; anonymous members add    *)
(* nothing to the path.                                                    *)
Leaves(t, base, bit, path) ==
    LET here == IF t.name = "" THEN path ELSE Append(path, t.name)
    IN  CASE t.kind \in {"scalar", "bits"} ->
                {[path |-> here, off |-> base, size |-> t.size,
                  bit |-> bit, width |-> t.width]}
          [] t.kind = "struct" ->
                UNION {Leaves(t.members[i], base + Place(t.members, i).off,
                              Place(t.members, i).bit, here) : i \in DOMAIN t.members}
          [] t.kind = "union" ->
                UNION {Leaves(t.members[i], base, 0, here) : i \in DOMAIN t.members}

LayoutOf(t) ==
    [name |-> t.name, size |-> SizeOf(t), align |-> AlignOf(t),
     leaves |-> Leaves(t, 0, 0, <<>>)]

(* The layouts of the two declared types.                                  *)
KgdtLayout == LayoutOf(TypeDef("KGDTENTRY64"))
KidtLayout == LayoutOf(TypeDef("KIDTENTRY64"))
Layout(n) == IF n = "KGDTENTRY64" THEN KgdtLayout ELSE KidtLayout

----------------------------------------------------------------------------
(* The file, directive by directive.  `syms` is the set S of a condition   *)
(* "defined(a) || defined(b) ..."; `name` is the header of an #include or  *)
(* the type of a declaration.                                              *)

If(l, S) == [line |-> l, op |-> "if", syms |-> S, name |-> ""]
Else(l) == [line |-> l, op |-> "else", syms |-> {}, name |-> ""]
Endif(l) == [line |-> l, op |-> "endif", syms |-> {}, name |-> ""]
Include(l, h) == [line |-> l, op |-> "include", syms |-> {}, name |-> h]
Declare(l, n) == [line |-> l, op |-> "declare", syms |-> {}, name |-> n]

(* The file with the two declarations moved below the #endif of line 66.   *)
Program_GapFillAfterEndif ==
    << If(4, {UMDF_VERSION_MAJOR}),
         Include(6, WindowsH),
       Else(8),
         Include(10, NtifsH),
         Include(11, NtddkH),
       Endif(12),
       Declare(14, "KGDTENTRY64"),
       Declare(49, "KIDTENTRY64"),
       If(68, {KMDF_VERSION_MAJOR, UMDF_VERSION_MAJOR}),
         Include(70, WdfH),
       Endif(72) >>

(* The file with the #else of line 8 closing the first group instead.      *)
Program_NoElse ==
    << If(4, {UMDF_VERSION_MAJOR}),
         Include(6, WindowsH),
       Endif(8),
       Include(10, NtifsH),
       Include(11, NtddkH),
       Declare(14, "KGDTENTRY64"),
       Declare(49, "KIDTENTRY64"),
       If(68, {KMDF_VERSION_MAJOR, UMDF_VERSION_MAJOR}),
         Include(70, WdfH),
       Endif(72) >>

(* The file with line 68 testing KMDF_VERSION_MAJOR alone.                 *)
Program_FrameworkKmdfOnly ==
    << If(4, {UMDF_VERSION_MAJOR}),
         Include(6, WindowsH),
       Else(8),
         Include(10, NtifsH),
         Include(11, NtddkH),
         Declare(14, "KGDTENTRY64"),
         Declare(49, "KIDTENTRY64"),
       Endif(66),
       If(68, {KMDF_VERSION_MAJOR}),
         Include(70, WdfH),
       Endif(72) >>

(* The file with the framework block placed before the base selection.     *)
Program_FrameworkFirst ==
    << If(4, {KMDF_VERSION_MAJOR, UMDF_VERSION_MAJOR}),
         Include(6, WdfH),
       Endif(8),
       If(10, {UMDF_VERSION_MAJOR}),
         Include(12, WindowsH),
       Else(14),
         Include(16, NtifsH),
         Include(17, NtddkH),
         Declare(20, "KGDTENTRY64"),
         Declare(55, "KIDTENTRY64"),
       Endif(72) >>

(* The file with line 4 testing either framework symbol, as line 68 does.  *)
Program_BaseOnEitherSymbol ==
    << If(4, {KMDF_VERSION_MAJOR, UMDF_VERSION_MAJOR}),
         Include(6, WindowsH),
       Else(8),
         Include(10, NtifsH),
         Include(11, NtddkH),
         Declare(14, "KGDTENTRY64"),
         Declare(49, "KIDTENTRY64"),
       Endif(66),
       If(68, {KMDF_VERSION_MAJOR, UMDF_VERSION_MAJOR}),
         Include(70, WdfH),
       Endif(72) >>

Program ==
    << If(4, {UMDF_VERSION_MAJOR}),
         Include(6, WindowsH),
       Else(8),
         Include(10, NtifsH),
         Include(11, NtddkH),
         Declare(14, "KGDTENTRY64"),
         Declare(49, "KIDTENTRY64"),
       Endif(66),
       If(68, {KMDF_VERSION_MAJOR, UMDF_VERSION_MAJOR}),
         Include(70, WdfH),
       Endif(72) >>

----------------------------------------------------------------------------
(* The preprocessor.                                                       *)

(* defined(a) && defined(b) && ...                                         *)
Defined_All(S) == \A a \in S : a \in symbols

(* defined(a) || defined(b) || ... under the pass's symbols.               *)
Defined(S) == \E a \in S : a \in symbols

(* The current line is in a group that is being processed.                 *)
Active == \A i \in DOMAIN conds : conds[i].active

Running == status = "running"
AtDirective(o) == Running /\ pc <= Len(Program) /\ Program[pc].op = o

Init ==
    /\ symbols = {}
    /\ avail = {}
    /\ pc = 1
    /\ conds = <<>>
    /\ decls = <<>>
    /\ types = {}
    /\ status = "idle"
    /\ output = <<>>
    /\ completed = {}
    /\ obj = "KGDTENTRY64"
    /\ mem = <<>>

(* One run of the generator over the file: the build configuration defines *)
(* the symbols in S and the search path finds the headers in A.            *)
StartPass ==
    /\ ~Running
    /\ \E S \in SUBSET Symbols, A \in SUBSET Headers :
            /\ symbols' = S
            /\ avail' = A
    /\ pc' = 1
    /\ conds' = <<>>
    /\ decls' = <<>>
    /\ types' = {}
    /\ status' = "running"
    /\ output' = <<>>
    /\ UNCHANGED <<completed, obj, mem>>

(* #if: the group is processed when the condition holds and the enclosing  *)
(* groups are processed.                                                   *)
DirectiveIf ==
    /\ AtDirective("if")
    /\ LET v == Active /\ Defined(Program[pc].syms)
       IN  conds' = Append(conds, [active |-> v, taken |-> v \/ ~Active])
    /\ pc' = pc + 1
    /\ UNCHANGED <<symbols, avail, decls, types, status, output, completed, obj, mem>>

(* #else: processed exactly when no earlier group of this #if was.         *)
DirectiveElse ==
    /\ AtDirective("else")
    /\ conds' = [conds EXCEPT ![Len(conds)] = [active |-> ~@.taken, taken |-> TRUE]]
    /\ pc' = pc + 1
    /\ UNCHANGED <<symbols, avail, decls, types, status, output, completed, obj, mem>>

DirectiveEndif ==
    /\ AtDirective("endif")
    /\ conds' = SubSeq(conds, 1, Len(conds) - 1)
    /\ pc' = pc + 1
    /\ UNCHANGED <<symbols, avail, decls, types, status, output, completed, obj, mem>>

(* A line of a group that is skipped.                                      *)
SkipLine ==
    /\ AtDirective("include") \/ AtDirective("declare")
    /\ ~Active
    /\ pc' = pc + 1
    /\ UNCHANGED <<symbols, avail, conds, decls, types, status, output, completed, obj, mem>>

(* #include of a header that is found: its declarations become visible.    *)
IncludeFound ==
    /\ AtDirective("include")
    /\ Active
    /\ Program[pc].name \in avail
    /\ decls' = Append(decls, Program[pc].name)
    /\ pc' = pc + 1
    /\ UNCHANGED <<symbols, avail, conds, types, status, output, completed, obj, mem>>

(* #include of a header that is not found, skipped without an error.       *)
IncludeMissing_Skip ==
    /\ AtDirective("include")
    /\ Active
    /\ Program[pc].name \notin avail
    /\ pc' = pc + 1
    /\ UNCHANGED <<symbols, avail, conds, decls, types, status, output, completed, obj, mem>>

(* #include of a header that is not found: a fatal error, the pass stops.  *)
IncludeMissing ==
    /\ AtDirective("include")
    /\ Active
    /\ Program[pc].name \notin avail
    /\ status' = "failed"
    /\ UNCHANGED <<symbols, avail, pc, conds, decls, types, output, completed, obj, mem>>

(* A typedef of the file: the type is declared with the layout the         *)
(* compiler computes for it.                                               *)
Declaration ==
    /\ AtDirective("declare")
    /\ Active
    /\ decls' = Append(decls, Program[pc].name)
    /\ types' = types \cup {Layout(Program[pc].name)}
    /\ pc' = pc + 1
    /\ UNCHANGED <<symbols, avail, conds, status, output, completed, obj, mem>>

(* The end of the file: the declaration set goes to the generator.         *)
EndOfFile ==
    /\ Running
    /\ pc = Len(Program) + 1
    /\ status' = "done"
    /\ output' = decls
    /\ completed' = completed \cup {[symbols |-> symbols, decls |-> decls]}
    /\ UNCHANGED <<symbols, avail, pc, conds, decls, types, obj, mem>>

Next ==
    \/ StartPass
    \/ DirectiveIf
    \/ DirectiveElse
    \/ DirectiveEndif
    \/ SkipLine
    \/ IncludeFound
    \/ IncludeMissing
    \/ Declaration
    \/ EndOfFile

Spec == Init /\ [][Next]_vars

----------------------------------------------------------------------------
(* Storage of one descriptor entry, accessed through its members.          *)
(* mem[i] is the byte at offset i-1 (x64 is little-endian).                *)

(* Values tried for a member of KGDTENTRY64 and of KIDTENTRY64: the `span` *)
(* smallest and the `span` largest values of the member's width.           *)
GdtSampleSpan == 1
IdtSampleSpan == 2

Pow2(n) == 2 ^ n

Samples(w, span) ==
    {v \in (0 .. (span - 1)) \cup ((Pow2(w) - span) .. (Pow2(w) - 1)) :
        v >= 0 /\ v < Pow2(w)}


(* The member of type n reached by `path`.                                 *)
Member(n, path) ==
    CHOOSE l \in Layout(n).leaves : l.path = <<n>> \o path

Min2(a, b) == IF a <= b THEN a ELSE b
Max2(a, b) == IF a >= b THEN a ELSE b

(* The bits [lo, hi) of byte value x, as an integer.                       *)
Slice(x, lo, hi) == (x \div Pow2(lo)) % Pow2(hi - lo)

RECURSIVE LoadFrom(_, _, _)
(* Reading a member: the member's bits are gathered from the bytes of its  *)
(* storage unit, byte b of the unit holding the unit's bits 8b .. 8b+7     *)
(* (little-endian), the member's first bit being bit l.bit of the unit.    *)
LoadFrom(m, l, b) ==
    IF b = l.size THEN 0
    ELSE LET lo == Max2(l.bit, 8 * b)
             hi == Min2(l.bit + l.width, 8 * b + 8)
         IN  (IF lo < hi
              THEN Slice(m[l.off + b + 1], lo - 8 * b, hi - 8 * b) * Pow2(lo - l.bit)
              ELSE 0)
             + LoadFrom(m, l, b + 1)

Load(m, l) == LoadFrom(m, l, 0)

RECURSIVE StoreFrom(_, _, _, _)
(* Writing a member: in each byte of the unit the member's bits take the   *)
(* bits of the value cut to the width; the other bits of the unit and the  *)
(* rest of the entry are kept.                                             *)
StoreFrom(m, l, v, b) ==
    IF b = l.size THEN m
    ELSE LET i == l.off + b + 1
             lo == Max2(l.bit, 8 * b)
             hi == Min2(l.bit + l.width, 8 * b + 8)
             after ==
                IF lo < hi
                THEN m[i] - Slice(m[i], lo - 8 * b, hi - 8 * b) * Pow2(lo - 8 * b)
                     + Slice(v % Pow2(l.width), lo - l.bit, hi - l.bit) * Pow2(lo - 8 * b)
                ELSE m[i]
         IN  StoreFrom([m EXCEPT ![i] = after], l, v, b + 1)

Store(m, l, v) == StoreFrom(m, l, v, 0)

BytesMembers == {"BaseMiddle", "Flags1", "Flags2", "BaseHigh"}
BitsMembers ==
    {"BaseMiddle", "Type", "Dpl", "Present", "LimitHigh", "System", "LongMode",
     "DefaultBig", "Granularity", "BaseHigh"}
IdtBitFields == {"IstIndex", "Reserved0", "Type", "Dpl", "Present"}

(* The members the views name, placed.                                     *)
Bytes == [f \in BytesMembers |-> Member("KGDTENTRY64", <<"Bytes", f>>)]
Bits == [f \in BitsMembers |-> Member("KGDTENTRY64", <<"Bits", f>>)]
IdtBits == [f \in IdtBitFields |-> Member("KIDTENTRY64", <<f>>)]

(* An entry of either type, every byte 0x00 or every byte 0xFF.            *)
MemInit ==
    /\ symbols = {}
    /\ avail = {}
    /\ pc = 1
    /\ conds = <<>>
    /\ decls = <<>>
    /\ types = {}
    /\ status = "idle"
    /\ output = <<>>
    /\ completed = {}
    /\ obj \in GapFilled
    /\ \E fill \in {0, 255} : mem = [i \in 1 .. Layout(obj).size |-> fill]

(* entry.Bytes.f = v                                                       *)
WriteBytes ==
    /\ obj = "KGDTENTRY64"
    /\ \E f \in BytesMembers, v \in Samples(8, GdtSampleSpan) :
            mem' = Store(mem, Bytes[f], v)
    /\ UNCHANGED <<passVars, obj>>

(* entry.Bits.f = v                                                        *)
WriteBits ==
    /\ obj = "KGDTENTRY64"
    /\ \E f \in BitsMembers :
          \E v \in Samples(Bits[f].width, GdtSampleSpan) : mem' = Store(mem, Bits[f], v)
    /\ UNCHANGED <<passVars, obj>>

(* entry.f = v for a bit-field f of KIDTENTRY64                             *)
WriteIdtBits ==
    /\ obj = "KIDTENTRY64"
    /\ \E f \in IdtBitFields :
          \E v \in Samples(IdtBits[f].width, IdtSampleSpan) : mem' = Store(mem, IdtBits[f], v)
    /\ UNCHANGED <<passVars, obj>>

MemNext ==
    \/ WriteBytes
    \/ WriteBits
    \/ WriteIdtBits

MemSpec == MemInit /\ [][MemNext]_vars

----------------------------------------------------------------------------
(* Properties of a pass.                                                   *)

Elems(s) == {s[i] : i \in DOMAIN s}
Occurrences(s, x) == Cardinality({i \in DOMAIN s : s[i] = x})

UserBase == {WindowsH}
KernelBase == {NtifsH, NtddkH}

(* The base headers and the gap-filled declarations of a declaration set,  *)
(* in the order they were emitted.                                         *)
IsBase(x) == x \in UserBase \cup KernelBase
IsGapFilled(x) == x \in GapFilled
BaseOf(s) == SelectSeq(s, IsBase)
GapOf(s) == SelectSeq(s, IsGapFilled)

UserBranch(s) == WindowsH \in Elems(s)
KernelBranch(s) == KernelBase \subseteq Elems(s)

(* The passes that ran to the end of the file, the current one included.   *)
Finished ==
    completed \cup
    (IF status = "done" THEN {[symbols |-> symbols, decls |-> output]} ELSE {})

AllCompleted == {c.symbols : c \in completed} = SUBSET Symbols

(* C1: a pass never holds a gap-filled declaration twice; a declaration is *)
(* emitted only with UMDF_VERSION_MAJOR undefined; a finished pass holds   *)
(* each of KGDTENTRY64 and KIDTENTRY64 exactly once when                   *)
(* UMDF_VERSION_MAJOR is undefined and not at all when it is defined, for  *)
(* every combination of the two symbols.                                   *)
C1_GapFilledExactlyInKernelBranch ==
    /\ \A n \in GapFilled :
          /\ Occurrences(decls, n) <= 1
          /\ n \in Elems(decls) => UMDF_VERSION_MAJOR \notin symbols
    /\ \A c \in Finished : \A n \in GapFilled :
          Occurrences(c.decls, n) =
              IF UMDF_VERSION_MAJOR \in c.symbols THEN 0 ELSE 1

(* A user-mode pass and a kernel-mode pass have both finished.             *)
C1_Witness ==
    \E a, b \in completed :
        /\ UMDF_VERSION_MAJOR \in a.symbols
        /\ GapFilled \cap Elems(a.decls) = {}
        /\ UMDF_VERSION_MAJOR \notin b.symbols
        /\ GapFilled \subseteq Elems(b.decls)

(* C2: a finished pass holds wdf.h exactly once when KMDF_VERSION_MAJOR or *)
(* UMDF_VERSION_MAJOR is defined, and not at all when neither is; no pass  *)
(* ever holds it twice.                                                    *)
C2_FrameworkIffSymbol ==
    /\ Occurrences(decls, WdfH) <= 1
    /\ \A c \in Finished :
          Occurrences(c.decls, WdfH) = IF c.symbols # {} THEN 1 ELSE 0

(* A kernel-mode pass with only KMDF_VERSION_MAJOR has just finished with  *)
(* wdf.h, and a pass with no symbol finished without it.                   *)
C2_Witness ==
    /\ status = "done"
    /\ symbols = {KMDF_VERSION_MAJOR}
    /\ WdfH \in Elems(output)
    /\ \E c \in completed : c.symbols = {} /\ WdfH \notin Elems(c.decls)

(* C3: no pass ever holds windows.h together with ntifs.h or ntddk.h, and  *)
(* a finished pass holds either windows.h or both ntifs.h and ntddk.h,     *)
(* each once, for every combination of the two symbols.                    *)
C3_ExactlyOneBase ==
    /\ ~(WindowsH \in Elems(decls) /\ KernelBase \cap Elems(decls) # {})
    /\ \A c \in Finished :
          /\ UserBranch(c.decls) # KernelBranch(c.decls)
          /\ Elems(BaseOf(c.decls)) \in {UserBase, KernelBase}
          /\ \A h \in Elems(BaseOf(c.decls)) : Occurrences(c.decls, h) = 1

(* Passes for all four combinations have finished.                         *)
C3_Witness ==
    /\ AllCompleted
    /\ status = "done"
    /\ symbols = {}
    /\ KernelBranch(output)

(* C4 as stated: every declared gap-filled type is 8 bytes and no member   *)
(* lies outside the 8 bytes of Alignment.                                  *)
C4_SizeIsEight ==
    \A t \in types :
        /\ t.size = 8
        /\ \A l \in t.leaves : l.off + l.size <= 8

(* The members of a declared type that lie past byte `n`.                  *)
Beyond(t, n) == {[name |-> l.path[Len(l.path)], off |-> l.off, size |-> l.size] :
                    l \in {x \in t.leaves : x.off + x.size > n}}

(* C4: every declared gap-filled type is 16 bytes; Alignment is the 8      *)
(* bytes at offset 0; every member lies within the 16 bytes; the members   *)
(* past byte 8 are the two 4-byte members at offsets 8 and 12 (BaseUpper   *)
(* and MustBeZero, OffsetHigh and Reserved1).                              *)
C4_SizeIsSixteen ==
    \A t \in types :
        /\ t.size = 16
        /\ \E l \in t.leaves :
              /\ l.path = <<t.name, "Alignment">>
              /\ l.off = 0
              /\ l.size = 8
        /\ \A l \in t.leaves : l.off >= 0 /\ l.off + l.size <= 16
        /\ Beyond(t, 8) =
              IF t.name = "KGDTENTRY64"
              THEN {[name |-> "BaseUpper", off |-> 8, size |-> 4],
                    [name |-> "MustBeZero", off |-> 12, size |-> 4]}
              ELSE {[name |-> "OffsetHigh", off |-> 8, size |-> 4],
                    [name |-> "Reserved1", off |-> 12, size |-> 4]}

(* Both types have been declared in a pass.                                *)
C4_Witness ==
    /\ {t.name : t \in types} = GapFilled
    /\ GapFilled \subseteq Elems(decls)

(* C5 as stated: once all four combinations have finished, each base       *)
(* branch has a pass with wdf.h and a pass without it.                     *)
C5_FrameworkIndependentOfBase ==
    AllCompleted =>
        /\ \E c \in completed : UserBranch(c.decls) /\ WdfH \in Elems(c.decls)
        /\ \E c \in completed : UserBranch(c.decls) /\ WdfH \notin Elems(c.decls)
        /\ \E c \in completed : KernelBranch(c.decls) /\ WdfH \in Elems(c.decls)
        /\ \E c \in completed : KernelBranch(c.decls) /\ WdfH \notin Elems(c.decls)

(* C5: once all four combinations have finished, the kernel-mode branch    *)
(* has a pass with wdf.h and a pass without it, and the user-mode branch   *)
(* has a pass with wdf.h; every user-mode pass holds wdf.h.                *)
C5_FrameworkOptionalInKernelOnly ==
    /\ AllCompleted =>
          /\ \E c \in completed : KernelBranch(c.decls) /\ WdfH \in Elems(c.decls)
          /\ \E c \in completed : KernelBranch(c.decls) /\ WdfH \notin Elems(c.decls)
          /\ \E c \in completed : UserBranch(c.decls) /\ WdfH \in Elems(c.decls)
    /\ \A c \in Finished : UserBranch(c.decls) => WdfH \in Elems(c.decls)

(* All four combinations have finished, two in each branch.                *)
C5_Witness ==
    /\ AllCompleted
    /\ Cardinality({c \in completed : UserBranch(c.decls)}) = 2
    /\ Cardinality({c \in completed : KernelBranch(c.decls)}) = 2

(* The headers a configuration asks for.                                   *)
Required(S) ==
    (IF UMDF_VERSION_MAJOR \in S THEN UserBase ELSE KernelBase)
    \cup (IF S # {} THEN {WdfH} ELSE {})

(* C6: a pass whose configuration asks for a header that is not found      *)
(* never reaches the end of the file; a failed pass stopped at the         *)
(* #include of a missing header it asks for and hands nothing to the       *)
(* generator; only a finished pass has an output.                          *)
C6_MissingHeaderIsFatal ==
    /\ status = "done" => Required(symbols) \subseteq avail
    /\ status = "failed" =>
          /\ output = <<>>
          /\ Program[pc].op = "include"
          /\ Program[pc].name \in Required(symbols) \ avail
    /\ status # "done" => output = <<>>

(* A pass failed at wdf.h after the kernel base and both declarations.     *)
C6_Witness ==
    /\ status = "failed"
    /\ WdfH \notin avail
    /\ Len(decls) = 4
    /\ output = <<>>

(* The step of a declaration-set element in the order of the file.         *)
Stage(x) ==
    CASE IsBase(x) -> 1
      [] x = "KGDTENTRY64" -> 2
      [] x = "KIDTENTRY64" -> 3
      [] x = WdfH -> 4

(* C7: in every pass, at every point, the declaration set is in the order  *)
(* base headers, KGDTENTRY64, KIDTENTRY64, wdf.h, nothing twice; wdf.h is  *)
(* included only after the whole base set of the branch, and in the        *)
(* kernel-mode branch only after both gap-filled declarations.             *)
C7_FixedOrder ==
    /\ \A i, j \in DOMAIN decls :
          i < j => Stage(decls[i]) <= Stage(decls[j]) /\ decls[i] # decls[j]
    /\ WdfH \in Elems(decls) =>
          /\ decls[Len(decls)] = WdfH
          /\ \/ Elems(decls) = UserBase \cup {WdfH}
             \/ Elems(decls) = KernelBase \cup GapFilled \cup {WdfH}

(* A kernel-mode pass with all five steps.                                 *)
C7_Witness ==
    decls = <<NtifsH, NtddkH, "KGDTENTRY64", "KIDTENTRY64", WdfH>>

(* C8: two finished passes that agree on UMDF_VERSION_MAJOR hold the same  *)
(* base headers and the same gap-filled declarations, whatever             *)
(* KMDF_VERSION_MAJOR is; with both symbols defined the pass is user-mode  *)
(* with no gap-filled declaration; with UMDF_VERSION_MAJOR undefined it is *)
(* kernel-mode.                                                            *)
C8_UmdfSoleDiscriminator ==
    /\ \A a, b \in Finished :
          (UMDF_VERSION_MAJOR \in a.symbols <=> UMDF_VERSION_MAJOR \in b.symbols)
          => /\ BaseOf(a.decls) = BaseOf(b.decls)
             /\ GapOf(a.decls) = GapOf(b.decls)
    /\ \A c \in Finished :
          /\ c.symbols = Symbols =>
                UserBranch(c.decls) /\ GapOf(c.decls) = <<>>
          /\ UMDF_VERSION_MAJOR \notin c.symbols =>
                KernelBranch(c.decls) /\ ~UserBranch(c.decls)

(* Two pairs of passes that differ only in KMDF_VERSION_MAJOR have         *)
(* finished.                                                               *)
C8_Witness ==
    /\ \E a, b \in completed :
          a.symbols = {UMDF_VERSION_MAJOR} /\ b.symbols = Symbols
    /\ \E a, b \in completed :
          a.symbols = {} /\ b.symbols = {KMDF_VERSION_MAJOR}
    /\ status = "done"
    /\ symbols = Symbols

----------------------------------------------------------------------------
(* Properties of the two views of KGDTENTRY64 and of the bit-fields of     *)
(* KIDTENTRY64.                                                            *)

(* C9: the widths of the ten Bits members sum to 32, the bits of the four  *)
(* Bytes members, and both views lie in the same four bytes; and for every *)
(* content of the entry Bits.BaseMiddle = Bytes.BaseMiddle,                *)
(* Bytes.Flags1 = Type + 32*Dpl + 128*Present,                             *)
(* Bytes.Flags2 = LimitHigh + 16*System + 32*LongMode + 64*DefaultBig      *)
(* + 128*Granularity, and Bits.BaseHigh = Bytes.BaseHigh.                  *)
C9_BytesAndBitsAgree ==
    obj = "KGDTENTRY64" =>
        /\ Bits["BaseMiddle"].width + Bits["Type"].width + Bits["Dpl"].width
           + Bits["Present"].width + Bits["LimitHigh"].width + Bits["System"].width
           + Bits["LongMode"].width + Bits["DefaultBig"].width
           + Bits["Granularity"].width + Bits["BaseHigh"].width = 32
        /\ Bytes["BaseMiddle"].width + Bytes["Flags1"].width
           + Bytes["Flags2"].width + Bytes["BaseHigh"].width = 32
        /\ \A f \in BitsMembers : Bits[f].off = Bytes["BaseMiddle"].off /\ Bits[f].size = 4
        /\ \A f \in BytesMembers :
              Bytes[f].off \in Bytes["BaseMiddle"].off .. (Bytes["BaseMiddle"].off + 3)
        /\ Load(mem, Bits["BaseMiddle"]) = Load(mem, Bytes["BaseMiddle"])
        /\ Load(mem, Bytes["Flags1"]) =
              Load(mem, Bits["Type"]) + 32 * Load(mem, Bits["Dpl"])
              + 128 * Load(mem, Bits["Present"])
        /\ Load(mem, Bytes["Flags2"]) =
              Load(mem, Bits["LimitHigh"]) + 16 * Load(mem, Bits["System"])
              + 32 * Load(mem, Bits["LongMode"]) + 64 * Load(mem, Bits["DefaultBig"])
              + 128 * Load(mem, Bits["Granularity"])
        /\ Load(mem, Bits["BaseHigh"]) = Load(mem, Bytes["BaseHigh"])

(* An entry whose flag bytes mix set and clear fields.                     *)
C9_Witness ==
    /\ obj = "KGDTENTRY64"
    /\ Load(mem, Bits["Type"]) = 31
    /\ Load(mem, Bits["Dpl"]) = 0
    /\ Load(mem, Bits["Present"]) = 1
    /\ Load(mem, Bytes["Flags1"]) = 159
    /\ Load(mem, Bits["LimitHigh"]) = 0
    /\ Load(mem, Bits["LongMode"]) = 1
    /\ Load(mem, Bits["Granularity"]) = 1
    /\ Load(mem, Bytes["Flags2"]) = 160
    /\ Load(mem, Bits["BaseHigh"]) = 255
    /\ Load(mem, Bytes["BaseMiddle"]) = 0

(* The 16-bit unit of KIDTENTRY64 that holds its bit-fields.               *)
IdtUnit(m) == m[IdtBits["IstIndex"].off + 1] + 256 * m[IdtBits["IstIndex"].off + 2]

(* C10: the five bit-fields of KIDTENTRY64 are IstIndex bits 0-2,          *)
(* Reserved0 bits 3-7, Type bits 8-12, Dpl bits 13-14 and Present bit 15   *)
(* of one 16-bit unit that starts where Selector ends and ends where       *)
(* OffsetMiddle starts; for every content of the entry the five fields     *)
(* recombine to the unit's value; and writing any value to one field       *)
(* reads back that value, leaves the other four fields and every byte      *)
(* outside the unit unchanged.                                             *)
C10_IdtBitFieldsPartitionUnit ==
    obj = "KIDTENTRY64" =>
        /\ [f \in IdtBitFields |-> <<IdtBits[f].bit, IdtBits[f].width>>] =
              [f \in IdtBitFields |->
                 CASE f = "IstIndex" -> <<0, 3>>
                   [] f = "Reserved0" -> <<3, 5>>
                   [] f = "Type" -> <<8, 5>>
                   [] f = "Dpl" -> <<13, 2>>
                   [] f = "Present" -> <<15, 1>>]
        /\ \A f \in IdtBitFields :
              /\ IdtBits[f].size = 2
              /\ IdtBits[f].off = Member(obj, <<"Selector">>).off + 2
              /\ IdtBits[f].off + 2 = Member(obj, <<"OffsetMiddle">>).off
        /\ Load(mem, IdtBits["IstIndex"]) + 8 * Load(mem, IdtBits["Reserved0"])
           + 256 * Load(mem, IdtBits["Type"]) + 8192 * Load(mem, IdtBits["Dpl"])
           + 32768 * Load(mem, IdtBits["Present"]) = IdtUnit(mem)
        /\ \A f \in IdtBitFields :
              \A v \in Samples(IdtBits[f].width, IdtSampleSpan) :
                 LET after == Store(mem, IdtBits[f], v)
                 IN  /\ Load(after, IdtBits[f]) = v
                     /\ \A g \in IdtBitFields \ {f} :
                           Load(after, IdtBits[g]) = Load(mem, IdtBits[g])
                     /\ \A i \in DOMAIN mem :
                           i - 1 \notin IdtBits[f].off .. (IdtBits[f].off + 1)
                           => after[i] = mem[i]

(* An entry whose five bit-fields hold different, non-zero values.         *)
C10_Witness ==
    /\ obj = "KIDTENTRY64"
    /\ Load(mem, IdtBits["IstIndex"]) = 6
    /\ Load(mem, IdtBits["Reserved0"]) = 1
    /\ Load(mem, IdtBits["Type"]) = 30
    /\ Load(mem, IdtBits["Dpl"]) = 2
    /\ Load(mem, IdtBits["Present"]) = 1
    /\ IdtUnit(mem) = 32768 + 2 * 8192 + 30 * 256 + 8 + 6

====
